---- MODULE Spec2Model ----
(***************************************************************************)
(* Model of nipoppy/tabular/bagel.py: the row schema BagelModel (a         *)
(* pydantic model with a "before" model validator, a field validator on    *)
(* status and an "after" model validator) and the table Bagel with its     *)
(* generator method get_completed_participants_sessions.                   *)
(*                                                                         *)
(* Three specifications share the definitions:                             *)
(*   SpecModel  one record construction, validator by validator;           *)
(*   SpecQuery  a query (and its repetition) on every bounded table;       *)
(*   Spec       a table that writers edit while a generator is consumed.   *)
(***************************************************************************)
EXTENDS Naturals, Sequences, FiniteSets

VARIABLES
    table,        \* Bagel: the rows of the dataframe, in row order
    written,      \* history: the rows as construction and the writers left them
    gen,          \* the generator object of get_completed_participants_sessions
    out,          \* the pairs the consumer has received from gen so far
    prev,         \* history: arguments and pairs of the previous, consumed call
    tableAtFirst, \* history: the rows when gen was first asked for a pair
    wrote,        \* history: did a writer act before / after that first request
    input,        \* history: the mapping handed to BagelModel(...)
    data,         \* the mapping as the validators see (and change) it
    pc,           \* position inside the construction of one BagelModel
    ran,          \* the checks executed during this construction
    result        \* what the construction produced: nothing yet, a record, an error

vars == <<table, written, gen, out, prev, tableAtFirst, wrote,
          input, data, pc, ran, result>>

queryVars == <<table, written, gen, out, prev, tableAtFirst, wrote>>

modelVars == <<input, data, pc, ran, result>>

(***************************************************************************)
(* Bounds.                                                                 *)
(***************************************************************************)
\* Longest table explored.
MaxRows == 2

(***************************************************************************)
(* Constants of the source.                                                *)
(***************************************************************************)
STATUS_SUCCESS == "SUCCESS"

STATUS_FAIL == "FAIL"

STATUS_INCOMPLETE == "INCOMPLETE"

STATUS_UNAVAILABLE == "UNAVAILABLE"

col_participant_id == "participant_id"

col_bids_participant_id == "bids_participant_id"

col_session_id == "session_id"

col_bids_session_id == "bids_session_id"

col_pipeline_name == "pipeline_name"

col_pipeline_version == "pipeline_version"

col_pipeline_step == "pipeline_step"

col_status == "status"

\* The fields of BagelModel, in declaration order (pydantic validates in it).
FieldOrder ==
    << col_participant_id, col_bids_participant_id, col_session_id,
       col_bids_session_id, col_pipeline_name, col_pipeline_version,
       col_pipeline_step, col_status >>

FieldNames == {FieldOrder[i] : i \in 1..Len(FieldOrder)}

(***************************************************************************)
(* nipoppy.utils: the identifier checks and conversions the module calls.  *)
(***************************************************************************)
BIDS_SUBJECT_PREFIX == "sub-"

BIDS_SESSION_PREFIX == "ses-"

AlnumChars == {"0", "1", "2", "a", "b", "s", "u", "e"}

\* str.startswith
StartsWith(s, p) == Len(s) >= Len(p) /\ SubSeq(s, 1, Len(p)) = p

\* str.isalnum: every character alphanumeric, and at least one character
IsAlnum(s) == Len(s) > 0 /\ \A i \in 1..Len(s) : SubSeq(s, i, i) \in AlnumChars

\* check_participant_id(x, raise_error=True) returns (TRUE) or raises (FALSE)
check_participant_id(x) == ~StartsWith(x, BIDS_SUBJECT_PREFIX) /\ IsAlnum(x)

\* check_session_id(x, raise_error=True) returns (TRUE) or raises (FALSE)
check_session_id(x) == ~StartsWith(x, BIDS_SESSION_PREFIX) /\ IsAlnum(x)

participant_id_to_bids_participant_id(x) == BIDS_SUBJECT_PREFIX \o x

session_id_to_bids_session_id(x) == BIDS_SESSION_PREFIX \o x

(***************************************************************************)
(* BagelModel: construction of one record.                                 *)
(*                                                                         *)
(* What is handed to the constructor is [kind, map]. kind is "dict" (what   *)
(* keyword arguments give), "mapping" (a Mapping that is no dict, such as  *)
(* a MappingProxyType handed to model_validate), "instance" (a BagelModel  *)
(* handed to model_validate) or "other". map is the mapping from field     *)
(* names to strings (a key that is absent is outside DOMAIN map), for an   *)
(* instance its fields. The "before" validator passes through whatever is  *)
(* no dict.                                                                *)
(***************************************************************************)
\* data[key] = value on a dict
Put(m, k, v) == [x \in (DOMAIN m) \cup {k} |-> IF x = k THEN v ELSE m[x]]

InSeq(x, s) == \E i \in 1..Len(s) : s[i] = x

valid_statuses ==
    <<STATUS_SUCCESS, STATUS_FAIL, STATUS_INCOMPLETE, STATUS_UNAVAILABLE>>

\* ValueError(f"Invalid status '{value}'. Must be one of: {valid_statuses}.")
InvalidStatus(value) ==
    [type |-> "value_error", loc |-> col_status,
     value |-> value, valid |-> valid_statuses]

\* The errors check_status raises on value: none when it returns value.
check_status(value) ==
    IF ~InSeq(value, valid_statuses) THEN <<InvalidStatus(value)>> ELSE <<>>

\* Mutant of validate_before_dict: both BIDS IDs are derived again from the raw
\* IDs whenever the raw ID is there, supplied or not.
validate_before_dict_rederive(m) ==
    IF col_participant_id \notin DOMAIN m
    THEN [raised |-> TRUE, key |-> col_participant_id, map |-> m]
    ELSE IF col_session_id \notin DOMAIN m
    THEN [raised |-> TRUE, key |-> col_session_id, map |-> m]
    ELSE [raised |-> FALSE, key |-> "",
          map |-> Put(Put(m, col_bids_participant_id,
                          participant_id_to_bids_participant_id(m[col_participant_id])),
                      col_bids_session_id,
                      session_id_to_bids_session_id(m[col_session_id]))]

\* validate_before on a dict: the two defaults, in the order of the code.
\* data[col_participant_id] on a dict without that key raises KeyError, which
\* pydantic does not turn into a ValidationError (only ValueError and
\* AssertionError are): [raised |-> TRUE, key]. The dict is changed in place,
\* so data holds the keys inserted before the KeyError.
validate_before_dict(m) ==
    IF col_bids_participant_id \notin DOMAIN m /\ col_participant_id \notin DOMAIN m
    THEN [raised |-> TRUE, key |-> col_participant_id, map |-> m]
    ELSE LET m1 == IF col_bids_participant_id \notin DOMAIN m
                   THEN Put(m, col_bids_participant_id,
                            participant_id_to_bids_participant_id(m[col_participant_id]))
                   ELSE m
         IN  IF col_bids_session_id \notin DOMAIN m1 /\ col_session_id \notin DOMAIN m1
             THEN [raised |-> TRUE, key |-> col_session_id, map |-> m1]
             ELSE [raised |-> FALSE, key |-> "",
                   map |-> IF col_bids_session_id \notin DOMAIN m1
                           THEN Put(m1, col_bids_session_id,
                                    session_id_to_bids_session_id(m1[col_session_id]))
                           ELSE m1]

validate_before(d) ==
    IF d.kind = "dict"
    THEN LET b == validate_before_dict(d.map)
         IN  [raised |-> b.raised, key |-> b.key,
              data |-> [kind |-> "dict", map |-> b.map]]
    ELSE [raised |-> FALSE, key |-> "", data |-> d]

Missing(f) == [type |-> "missing", loc |-> f]

\* pydantic's validation of one declared field: required, then its validator.
FieldErrors(m, f) ==
    IF f \notin DOMAIN m THEN <<Missing(f)>>
    ELSE IF f = col_status THEN check_status(m[f])
    ELSE <<>>

RECURSIVE FieldErrorsFrom(_, _)
FieldErrorsFrom(m, i) ==
    IF i > Len(FieldOrder) THEN <<>>
    ELSE FieldErrors(m, FieldOrder[i]) \o FieldErrorsFrom(m, i + 1)

\* pydantic's field validation of the whole input. A dict and any other
\* mapping: every field's errors, in declaration order. An instance of the
\* model is taken as it is, its fields are not validated again. Anything
\* else is a model_type error.
ValidateFields(d) ==
    IF d.kind \in {"dict", "mapping"} THEN FieldErrorsFrom(d.map, 1)
    ELSE IF d.kind = "instance" THEN <<>>
    ELSE <<[type |-> "model_type", loc |-> ""]>>

\* The record pydantic builds from a mapping whose fields validated.
Record(m) == [f \in FieldNames |-> m[f]]

\* The ValueError of a checker, raised in the "after" validator: pydantic
\* reports it against the model (the empty location), with the checker's
\* message, which is all that tells the two ID errors apart.
IdError(checker) == [type |-> "value_error", loc |-> "", msg |-> checker]

\* validate_after, line 90
after_participant(r) ==
    IF check_participant_id(r.participant_id) THEN <<>>
    ELSE <<IdError("check_participant_id")>>

\* Mutant of after_session: the session ID is not checked.
after_session_skipped(r) == <<>>

\* validate_after, line 91
after_session(r) ==
    IF check_session_id(r.session_id) THEN <<>>
    ELSE <<IdError("check_session_id")>>

\* validate_after: line 90, then line 91 if line 90 returned
validate_after(r) ==
    IF after_participant(r) # <<>> THEN after_participant(r) ELSE after_session(r)

NoResult == [kind |-> "none"]

KeyError(k) == [kind |-> "KeyError", key |-> k]

ValidationError(errs) == [kind |-> "ValidationError", errors |-> errs]

Built(r) == [kind |-> "record", rec |-> r]

\* The construction of a BagelModel as a whole: the "before" validator, the fields (with
\* check_status), and the "after" validator only when the fields validated.
BagelModel(d) ==
    LET b == validate_before(d)
    IN  IF b.raised THEN KeyError(b.key)
        ELSE LET errs == ValidateFields(b.data)
             IN  IF errs # <<>> THEN ValidationError(errs)
                 ELSE LET r == Record(b.data.map)
                      IN  IF validate_after(r) # <<>>
                          THEN ValidationError(validate_after(r))
                          ELSE Built(r)

(***************************************************************************)
(* The inputs explored for one construction.                               *)
(***************************************************************************)
Absent == "<absent>"

FieldOptions(f) ==
    CASE f = col_participant_id      -> {Absent, "01", "sub-01", "a_1"}
      [] f = col_bids_participant_id -> {Absent, "sub-01", "sub-99"}
      [] f = col_session_id          -> {Absent, "1", "ses-1", ""}
      [] f = col_bids_session_id     -> {Absent, "ses-1", "BL"}
      [] f = col_pipeline_name       -> {Absent, "pipeA"}
      [] f = col_pipeline_version    -> {"v1"}
      [] f = col_pipeline_step       -> {"stepX"}
      [] f = col_status              -> {Absent, STATUS_SUCCESS, STATUS_FAIL,
                                         STATUS_INCOMPLETE, STATUS_UNAVAILABLE,
                                         "DONE", "success"}

Choices ==
    {[participant_id |-> p, bids_participant_id |-> bp, session_id |-> s,
      bids_session_id |-> bs, pipeline_name |-> n, pipeline_version |-> v,
      pipeline_step |-> step, status |-> st] :
        p \in FieldOptions(col_participant_id),
        bp \in FieldOptions(col_bids_participant_id),
        s \in FieldOptions(col_session_id),
        bs \in FieldOptions(col_bids_session_id),
        n \in FieldOptions(col_pipeline_name),
        v \in FieldOptions(col_pipeline_version),
        step \in FieldOptions(col_pipeline_step),
        st \in FieldOptions(col_status)}

MappingOf(c) == [f \in {g \in FieldNames : c[g] # Absent} |-> c[f]]

\* An input that is neither a mapping nor an instance of the model.
OtherInput == [kind |-> "other", map |-> <<>>]

DictInputs == {[kind |-> "dict", map |-> MappingOf(c)] : c \in Choices}

\* The same mappings, held by a Mapping that is no dict.
MappingInputs == {[kind |-> "mapping", map |-> MappingOf(c)] : c \in Choices}

\* The records that construction from a dict has built, handed in again.
InstanceInputs ==
    {[kind |-> "instance", map |-> BagelModel(d).rec] :
        d \in {e \in DictInputs : BagelModel(e).kind = "record"}}

ModelInputs == DictInputs \cup MappingInputs \cup InstanceInputs \cup {OtherInput}

(***************************************************************************)
(* Bagel.get_completed_participants_sessions.                              *)
(*                                                                         *)
(* The arguments are [pipeline_name, pipeline_version, pipeline_step,      *)
(* participant_id, session_id]; an Optional[str] is a sequence of length   *)
(* 0 (None) or 1 (the string).                                             *)
(***************************************************************************)
\* set(self[col])
ColumnSet(t, col) == {t[i][col] : i \in 1..Len(t)}

\* Mutant of participant_ids: set(self.col_participant_id), the characters of
\* the column's name, instead of set(self[self.col_participant_id]).
participant_ids_of_name(t, a) ==
    IF a.participant_id = <<>>
    THEN {SubSeq(col_participant_id, i, i) : i \in 1..Len(col_participant_id)}
    ELSE {a.participant_id[1]}

\* lines 156-159
participant_ids(t, a) ==
    IF a.participant_id = <<>> THEN ColumnSet(t, col_participant_id)
    ELSE {a.participant_id[1]}

\* lines 160-163
session_ids(t, a) ==
    IF a.session_id = <<>> THEN ColumnSet(t, col_session_id)
    ELSE {a.session_id[1]}

\* Mutant of RowSelected: the status is not looked at.
RowSelected_any_status(r, a, pids, sids) ==
    /\ r[col_pipeline_name] = a.pipeline_name
    /\ r[col_pipeline_version] = a.pipeline_version
    /\ r[col_pipeline_step] = a.pipeline_step
    /\ r[col_participant_id] \in pids
    /\ r[col_session_id] \in sids

\* lines 166-171: the boolean mask, for one row
RowSelected(r, a, pids, sids) ==
    /\ r[col_pipeline_name] = a.pipeline_name
    /\ r[col_pipeline_version] = a.pipeline_version
    /\ r[col_pipeline_step] = a.pipeline_step
    /\ r[col_participant_id] \in pids
    /\ r[col_session_id] \in sids
    /\ r[col_status] = STATUS_SUCCESS

\* lines 165-172: self.loc[mask], a copy of the selected rows in row order
bagel_subset(t, a, pids, sids) ==
    SelectSeq(t, LAMBDA r : RowSelected(r, a, pids, sids))

\* Mutant of Tuples: a pair that was delivered is not delivered again
\* (drop_duplicates before itertuples).
Tuples_deduplicated(sub) ==
    LET pair(i) == <<sub[i][col_participant_id], sub[i][col_session_id]>>
        first == {i \in 1..Len(sub) : \A j \in 1..(i - 1) : pair(j) # pair(i)}
        nth(k) == CHOOSE i \in first : Cardinality({j \in first : j < i}) = k - 1
    IN  [k \in 1..Cardinality(first) |-> pair(nth(k))]

\* lines 174-176: the tuples itertuples(index=False) delivers, one per row of
\* the two-column copy
Tuples(sub) ==
    [i \in 1..Len(sub) |-> <<sub[i][col_participant_id], sub[i][col_session_id]>>]

NoArgs ==
    [pipeline_name |-> "", pipeline_version |-> "", pipeline_step |-> "",
     participant_id |-> <<>>, session_id |-> <<>>]

\* No generator object.
NoGen ==
    [phase |-> "idle", args |-> NoArgs, participant_ids |-> {},
     session_ids |-> {}, items |-> <<>>]

NoPrev == [called |-> FALSE, args |-> NoArgs, out |-> <<>>]

NoWrite == [before |-> FALSE, after |-> FALSE]

\* The body of the generator up to its first yield (or its return), run on the
\* first request: the candidate sets, the mask, the copy and its tuples are
\* all computed here, from the rows of that moment.
FirstRequest(t, a) ==
    LET pids  == participant_ids(t, a)
        sids  == session_ids(t, a)
        items == Tuples(bagel_subset(t, a, pids, sids))
    IN  [phase |-> IF items = <<>> THEN "done" ELSE "running",
         args |-> a, participant_ids |-> pids, session_ids |-> sids,
         items |-> items]

\* Calling the method: a generator object that holds the arguments; no line
\* of the body has run.
Call(a) ==
    /\ gen.phase = "idle"
    /\ gen' = [NoGen EXCEPT !.phase = "created", !.args = a]
    /\ out' = <<>>
    /\ tableAtFirst' = <<>>
    /\ wrote' = NoWrite
    /\ UNCHANGED <<table, written, prev, modelVars>>

\* Mutant of FirstNext: the table is filtered in place.
FirstNext_in_place ==
    /\ gen.phase = "created"
    /\ gen' = FirstRequest(table, gen.args)
    /\ out' = IF gen'.items = <<>> THEN <<>> ELSE <<gen'.items[1]>>
    /\ tableAtFirst' = table
    /\ table' = bagel_subset(table, gen.args, gen'.participant_ids, gen'.session_ids)
    /\ UNCHANGED <<written, prev, wrote, modelVars>>

\* The first next(gen).
FirstNext ==
    /\ gen.phase = "created"
    /\ gen' = FirstRequest(table, gen.args)
    /\ out' = IF gen'.items = <<>> THEN <<>> ELSE <<gen'.items[1]>>
    /\ tableAtFirst' = table
    /\ UNCHANGED <<table, written, prev, wrote, modelVars>>

\* Mutant of NextPair: every request scans the rows as they are now.
NextPair_live ==
    /\ gen.phase = "running"
    /\ LET now == FirstRequest(table, gen.args).items
       IN  IF Len(out) < Len(now)
           THEN /\ out' = Append(out, now[Len(out) + 1])
                /\ gen' = [gen EXCEPT !.items = now]
           ELSE /\ out' = out
                /\ gen' = [gen EXCEPT !.phase = "done", !.items = now]
    /\ UNCHANGED <<table, written, prev, tableAtFirst, wrote, modelVars>>

\* A later next(gen): the next tuple of the copy, or StopIteration.
NextPair ==
    /\ gen.phase = "running"
    /\ IF Len(out) < Len(gen.items)
       THEN /\ out' = Append(out, gen.items[Len(out) + 1])
            /\ gen' = gen
       ELSE /\ out' = out
            /\ gen' = [gen EXCEPT !.phase = "done"]
    /\ UNCHANGED <<table, written, prev, tableAtFirst, wrote, modelVars>>

\* The same call once more, after the first one was consumed.
CallAgain ==
    /\ gen.phase = "done"
    /\ ~prev.called
    /\ prev' = [called |-> TRUE, args |-> gen.args, out |-> out]
    /\ gen' = [NoGen EXCEPT !.phase = "created", !.args = gen.args]
    /\ out' = <<>>
    /\ UNCHANGED <<table, written, tableAtFirst, wrote, modelVars>>

\* The consumed generator is dropped.
Close ==
    /\ gen.phase = "done"
    /\ gen' = NoGen
    /\ out' = <<>>
    /\ tableAtFirst' = <<>>
    /\ wrote' = NoWrite
    /\ UNCHANGED <<table, written, prev, modelVars>>

(***************************************************************************)
(* The writers of the table: the rows are validated by BagelModel when     *)
(* they are added (Bagel.model); rows can be dropped and a status set.     *)
(***************************************************************************)
\* What a change of the rows means for the history of the current generator.
Noted ==
    IF gen.phase = "created" THEN [wrote EXCEPT !.before = TRUE]
    ELSE IF gen.phase = "running" THEN [wrote EXCEPT !.after = TRUE]
    ELSE wrote

AddRow(d) ==
    /\ Len(table) < MaxRows
    /\ LET res == BagelModel(d)
       IN  IF res.kind = "record"
           THEN /\ table' = Append(table, res.rec)
                /\ written' = Append(written, res.rec)
                /\ wrote' = Noted
           ELSE UNCHANGED <<table, written, wrote>>
    /\ UNCHANGED <<gen, out, prev, tableAtFirst, modelVars>>

Without(t, i) == SubSeq(t, 1, i - 1) \o SubSeq(t, i + 1, Len(t))

RemoveRow(i) ==
    /\ i \in 1..Len(table)
    /\ table' = Without(table, i)
    /\ written' = Without(written, i)
    /\ wrote' = Noted
    /\ UNCHANGED <<gen, out, prev, tableAtFirst, modelVars>>

SetStatus(i, st) ==
    /\ i \in 1..Len(table)
    /\ table[i][col_status] # st
    /\ table' = [table EXCEPT ![i][col_status] = st]
    /\ written' = [written EXCEPT ![i][col_status] = st]
    /\ wrote' = Noted
    /\ UNCHANGED <<gen, out, prev, tableAtFirst, modelVars>>

(***************************************************************************)
(* The rows, tables and queries explored.                                  *)
(***************************************************************************)
RowInput(p, s, n, v, step, st) ==
    [kind |-> "dict",
     map |-> [participant_id |-> p, session_id |-> s, pipeline_name |-> n,
              pipeline_version |-> v, pipeline_step |-> step, status |-> st]]

Participants == {"01", "02"}

Sessions == {"1", "2"}

\* Pipeline (name, version, step, status) of the rows: the queried pipeline in
\* every status, and pipelines that differ from it in exactly one of name,
\* version and step.
RowKinds ==
    {<<"pipeA", "v1", "stepX", st>> :
        st \in {STATUS_SUCCESS, STATUS_FAIL, STATUS_INCOMPLETE, STATUS_UNAVAILABLE}}
    \cup {<<"pipeB", "v1", "stepX", STATUS_SUCCESS>>,
          <<"pipeA", "v2", "stepX", STATUS_SUCCESS>>,
          <<"pipeA", "v1", "stepY", STATUS_SUCCESS>>}

QueryInputs ==
    {RowInput(p, s, k[1], k[2], k[3], k[4]) :
        p \in Participants, s \in Sessions, k \in RowKinds}

\* The validated rows a table of SpecQuery is made of.
QueryRows == {BagelModel(d).rec : d \in QueryInputs}

TablesOf(rows, n) == UNION {[1..k -> rows] : k \in 0..n}

\* The queries: the pipeline of the rows and a step of one row only, without
\* and with a participant (one of the rows', one of no row) and a session.
QueryArgs ==
    {[pipeline_name |-> "pipeA", pipeline_version |-> "v1", pipeline_step |-> step,
      participant_id |-> p, session_id |-> s] :
        step \in {"stepX", "stepY"}, p \in {<<>>, <<"01">>, <<"03">>},
        s \in {<<>>, <<"1">>}}

\* What the writers of Spec hand to BagelModel: rows of the queried pipeline,
\* and one input that BagelModel refuses.
WriterInputs ==
    {RowInput(p, "1", "pipeA", "v1", "stepX", st) :
        p \in Participants \cup {"sub-01"}, st \in {STATUS_SUCCESS, STATUS_FAIL}}

WriterStatuses == {STATUS_SUCCESS, STATUS_FAIL}

WriterArgs ==
    {[pipeline_name |-> "pipeA", pipeline_version |-> "v1", pipeline_step |-> "stepX",
      participant_id |-> p, session_id |-> <<>>] : p \in {<<>>, <<"01">>}}

(***************************************************************************)
(* Construction of one BagelModel, validator by validator.                 *)
(***************************************************************************)
\* @model_validator(mode="before")
ValidateBefore ==
    /\ pc = "before"
    /\ LET b == validate_before(data)
       IN  /\ data' = b.data
           /\ IF b.raised
              THEN pc' = "done" /\ result' = KeyError(b.key)
              ELSE pc' = "fields" /\ result' = result
    /\ UNCHANGED <<input, ran, queryVars>>

\* The declared fields; check_status runs on a status that is there.
ValidateTheFields ==
    /\ pc = "fields"
    /\ ran' = IF data.kind \in {"dict", "mapping"} /\ col_status \in DOMAIN data.map
              THEN ran \cup {"check_status"} ELSE ran
    /\ IF ValidateFields(data) # <<>>
       THEN pc' = "done" /\ result' = ValidationError(ValidateFields(data))
       ELSE pc' = "after_participant" /\ result' = result
    /\ UNCHANGED <<input, data, queryVars>>

\* Mutant of CheckParticipant: both checks are made and their errors collected,
\* whatever the participant check says.
CheckParticipant_collecting ==
    /\ pc = "after_participant"
    /\ ran' = ran \cup {"check_participant_id", "check_session_id"}
    /\ pc' = "done"
    /\ LET errs == after_participant(Record(data.map)) \o after_session(Record(data.map))
       IN  result' = IF errs # <<>> THEN ValidationError(errs)
                     ELSE Built(Record(data.map))
    /\ UNCHANGED <<input, data, queryVars>>

\* @model_validator(mode="after"), line 90
CheckParticipant ==
    /\ pc = "after_participant"
    /\ ran' = ran \cup {"check_participant_id"}
    /\ IF after_participant(Record(data.map)) # <<>>
       THEN pc' = "done"
            /\ result' = ValidationError(after_participant(Record(data.map)))
       ELSE pc' = "after_session" /\ result' = result
    /\ UNCHANGED <<input, data, queryVars>>

\* @model_validator(mode="after"), lines 91-92
CheckSession ==
    /\ pc = "after_session"
    /\ ran' = ran \cup {"check_session_id"}
    /\ pc' = "done"
    /\ result' = IF after_session(Record(data.map)) # <<>>
                 THEN ValidationError(after_session(Record(data.map)))
                 ELSE Built(Record(data.map))
    /\ UNCHANGED <<input, data, queryVars>>

(***************************************************************************)
(* The specifications.                                                     *)
(***************************************************************************)
NoQuery ==
    /\ written = table
    /\ gen = NoGen
    /\ out = <<>>
    /\ prev = NoPrev
    /\ tableAtFirst = <<>>
    /\ wrote = NoWrite

NoConstruction ==
    /\ input = OtherInput
    /\ data = OtherInput
    /\ pc = "idle"
    /\ ran = {}
    /\ result = NoResult

\* An empty table, which writers fill and edit while generators are consumed.
Init == table = <<>> /\ NoQuery /\ NoConstruction

Next ==
    \/ \E a \in WriterArgs : Call(a)
    \/ FirstNext
    \/ NextPair
    \/ Close
    \/ \E d \in WriterInputs : AddRow(d)
    \/ \E i \in 1..MaxRows : RemoveRow(i)
    \/ \E i \in 1..MaxRows, st \in WriterStatuses : SetStatus(i, st)

Spec == Init /\ [][Next]_vars

\* Any table of validated rows, queried once and then once more.
InitQuery == table \in TablesOf(QueryRows, MaxRows) /\ NoQuery /\ NoConstruction

NextQuery ==
    \/ \E a \in QueryArgs : Call(a)
    \/ FirstNext
    \/ NextPair
    \/ CallAgain

SpecQuery == InitQuery /\ [][NextQuery]_vars

\* One construction, of any of the inputs.
InitModel ==
    /\ table = <<>>
    /\ NoQuery
    /\ input \in ModelInputs
    /\ data = input
    /\ pc = "before"
    /\ ran = {}
    /\ result = NoResult

NextModel ==
    \/ ValidateBefore
    \/ ValidateTheFields
    \/ CheckParticipant
    \/ CheckSession

SpecModel == InitModel /\ [][NextModel]_vars

(***************************************************************************)
(* The properties, stated without the operators of the method.             *)
(***************************************************************************)
Range(q) == {q[i] : i \in 1..Len(q)}

IsPrefix(p, q) == Len(p) <= Len(q) /\ SubSeq(q, 1, Len(p)) = p

PairOf(r) == <<r.participant_id, r.session_id>>

\* The candidate sets as the specification words them.
CandidateParticipants(t, a) ==
    IF a.participant_id = <<>> THEN {t[i].participant_id : i \in 1..Len(t)}
    ELSE {a.participant_id[1]}

CandidateSessions(t, a) ==
    IF a.session_id = <<>> THEN {t[i].session_id : i \in 1..Len(t)}
    ELSE {a.session_id[1]}

\* Row r of table t qualifies for the query a.
Qualifies(r, t, a) ==
    /\ r.pipeline_name = a.pipeline_name
    /\ r.pipeline_version = a.pipeline_version
    /\ r.pipeline_step = a.pipeline_step
    /\ r.participant_id \in CandidateParticipants(t, a)
    /\ r.session_id \in CandidateSessions(t, a)
    /\ r.status = "SUCCESS"

QualifyingRows(t, a) == {i \in 1..Len(t) : Qualifies(t[i], t, a)}

\* The pairs of the qualifying rows of t, in row order.
Expected(t, a) ==
    LET q == QualifyingRows(t, a)
        nth(k) == CHOOSE i \in q : Cardinality({j \in q : j < i}) = k - 1
    IN  [k \in 1..Cardinality(q) |-> PairOf(t[nth(k)])]

\* The same query with an omitted participant_id or session_id read as "any
\* value": no constraint at all on that column.
WildcardQualifies(r, a) ==
    /\ r.pipeline_name = a.pipeline_name
    /\ r.pipeline_version = a.pipeline_version
    /\ r.pipeline_step = a.pipeline_step
    /\ (a.participant_id # <<>> => r.participant_id = a.participant_id[1])
    /\ (a.session_id # <<>> => r.session_id = a.session_id[1])
    /\ r.status = "SUCCESS"

WildcardResult(t, a) ==
    LET q == {i \in 1..Len(t) : WildcardQualifies(t[i], a)}
        nth(k) == CHOOSE i \in q : Cardinality({j \in q : j < i}) = k - 1
    IN  [k \in 1..Cardinality(q) |-> PairOf(t[nth(k)])]

\* C1: once the generator is consumed, a pair was produced if and only if it
\* is the pair of a row whose pipeline name, version and step equal the
\* arguments, whose participant and session are in the candidate sets and whose
\* status is SUCCESS; no other row contributes a pair.
C1_CompletedPairs ==
    gen.phase = "done" =>
        Range(out) = {PairOf(table[i]) : i \in QualifyingRows(table, gen.args)}

\* C1 witness: a consumed query that produced a pair from a table that also
\* holds a row of the queried pipeline that did not succeed and a row of
\* another step, version or name.
C1_Witness ==
    /\ gen.phase = "done"
    /\ Len(out) = 1
    /\ Len(table) = 2
    /\ \E i \in 1..Len(table) :
          \/ table[i].status # "SUCCESS"
          \/ table[i].pipeline_step # gen.args.pipeline_step

\* C2: the consumed output holds one pair per qualifying row, in row order: it
\* is as long as there are qualifying rows, and the pair of a qualifying row
\* stands at the position that counts the qualifying rows before it, so a
\* pair that several qualifying rows carry appears once per row.
C2_RowOrder ==
    gen.phase = "done" =>
        LET q == QualifyingRows(table, gen.args)
        IN  /\ Len(out) = Cardinality(q)
            /\ \A i \in q : out[1 + Cardinality({j \in q : j < i})] = PairOf(table[i])

\* C2 witness: two qualifying rows with the same pair, delivered twice.
C2_Witness ==
    /\ gen.phase = "done"
    /\ Len(out) = 2
    /\ out[1] = out[2]

\* C7: the query is a read: the rows are those the writers left, whatever
\* part of the generator has run, and the same call made again on the
\* unmodified table delivers the same pairs in the same order.
C7_PureRead ==
    /\ table = written
    /\ (gen.phase = "done" /\ prev.called =>
            prev.args = gen.args /\ out = prev.out)

\* C7 witness: the second of two consumed calls that delivered pairs.
C7_Witness ==
    /\ gen.phase = "done"
    /\ prev.called
    /\ Len(out) = 2

\* C8 as amended: with participant_id (session_id) omitted the candidate set
\* is the set of the values of that column at the first request, and the
\* consumed output is that of the wildcard reading of the query.
C8_OmittedIsWildcard ==
    /\ gen.phase \in {"running", "done"} =>
          /\ gen.args.participant_id = <<>> =>
                gen.participant_ids = {table[i].participant_id : i \in 1..Len(table)}
          /\ gen.args.session_id = <<>> =>
                gen.session_ids = {table[i].session_id : i \in 1..Len(table)}
    /\ gen.phase = "done" => out = WildcardResult(table, gen.args)

\* C8 witness: a consumed query without participant_id and session_id, on a
\* table with a participant and a session that no qualifying row carries.
C8_Witness ==
    /\ gen.phase = "done"
    /\ gen.args.participant_id = <<>>
    /\ gen.args.session_id = <<>>
    /\ Len(out) = 1
    /\ \E i \in 1..Len(table) :
          /\ table[i].participant_id # out[1][1]
          /\ table[i].session_id # out[1][2]

\* C8 as claimed: some table and some query exist for which the omitted
\* filter and the wildcard reading give different results (looked for among
\* all the tables and queries explored, once a query has been consumed).
C8_Original ==
    gen.phase = "done" =>
        \E t \in TablesOf(QueryRows, MaxRows), a \in QueryArgs :
            FirstRequest(t, a).items # WildcardResult(t, a)

\* C10: calling reads nothing; the pairs delivered are those of the rows as
\* they were at the first request, whatever was written before it or after it.
C10_FirstRequestSnapshot ==
    /\ gen.phase = "created" =>
          gen.items = <<>> /\ gen.participant_ids = {} /\ gen.session_ids = {}
    /\ gen.phase \in {"running", "done"} =>
          IsPrefix(out, Expected(tableAtFirst, gen.args))
    /\ gen.phase = "done" => out = Expected(tableAtFirst, gen.args)

\* C10 witness: rows were written between the call and the first request and
\* again after the first pair; the consumed output is not what the rows of
\* the end would give.
C10_Witness ==
    /\ gen.phase = "done"
    /\ wrote.before
    /\ wrote.after
    /\ Len(out) = 2
    /\ Expected(table, gen.args) # out

(***************************************************************************)
(* The properties of the construction.                                     *)
(***************************************************************************)
LegalStatus(v) == v \in {"SUCCESS", "FAIL", "INCOMPLETE", "UNAVAILABLE"}

\* The input holds a value for field f.
Supplied(f) == input.kind # "other" /\ f \in DOMAIN input.map

\* Every field but the two BIDS IDs is supplied.
RequiredSupplied ==
    \A f \in FieldNames \ {col_bids_participant_id, col_bids_session_id} : Supplied(f)

\* The raw fields of the input are those of a valid record.
RawValid ==
    /\ RequiredSupplied
    /\ LegalStatus(input.map.status)
    /\ check_participant_id(input.map.participant_id)
    /\ check_session_id(input.map.session_id)

\* Each BIDS ID is supplied, or the input is a dict, which gets the default.
BidsAvailable ==
    \A f \in {col_bids_participant_id, col_bids_session_id} :
        Supplied(f) \/ input.kind = "dict"

\* C3: a status outside the four legal values ends the construction in a
\* validation error that holds the invalid-status error with the value and
\* the four legal values; a legal status in an otherwise valid record ends it
\* in a record.
C3_StatusEnumeration ==
    pc = "done" /\ Supplied(col_status) =>
        IF LegalStatus(input.map.status)
        THEN RawValid /\ BidsAvailable => result.kind = "record"
        ELSE /\ result.kind = "ValidationError"
             /\ \E i \in 1..Len(result.errors) :
                    result.errors[i] =
                        [type |-> "value_error", loc |-> "status",
                         value |-> input.map.status,
                         valid |-> <<"SUCCESS", "FAIL", "INCOMPLETE", "UNAVAILABLE">>]

\* What C4 says of the BIDS IDs of a record that was built: the supplied
\* value when the key was supplied, the conversion of the raw ID when not.
BidsAsClaimed ==
    /\ result.rec.bids_participant_id =
          IF Supplied(col_bids_participant_id) THEN input.map.bids_participant_id
          ELSE participant_id_to_bids_participant_id(input.map.participant_id)
    /\ result.rec.bids_session_id =
          IF Supplied(col_bids_session_id) THEN input.map.bids_session_id
          ELSE session_id_to_bids_session_id(input.map.session_id)

\* C4 as claimed: every input mapping whose raw fields are valid ends in a
\* record, with each BIDS ID the supplied value or, when its key is absent,
\* the conversion of the raw ID.
C4_Original ==
    pc = "done" /\ input.kind \in {"dict", "mapping"} /\ RawValid =>
        result.kind = "record" /\ BidsAsClaimed

\* C4 as amended: a dict whose raw fields are valid ends in a record; in
\* every record built each BIDS ID is the supplied value when its key was
\* supplied and the conversion of the raw ID when it was not, each of the two
\* on its own; a mapping that is no dict gets no default: a BIDS key that it
\* lacks is a missing field.
C4_BidsDefaults ==
    pc = "done" =>
        /\ input.kind = "dict" /\ RawValid => result.kind = "record"
        /\ result.kind = "record" => BidsAsClaimed
        /\ \A f \in {col_bids_participant_id, col_bids_session_id} :
              input.kind = "mapping" /\ ~Supplied(f) =>
                  /\ result.kind = "ValidationError"
                  /\ \E i \in 1..Len(result.errors) :
                        result.errors[i] = [type |-> "missing", loc |-> f]

\* C4 witness: a record built from a dict with a BIDS participant ID that is
\* not the conversion of the participant ID, and no BIDS session ID.
C4_Witness ==
    /\ pc = "done"
    /\ input.kind = "dict"
    /\ result.kind = "record"
    /\ Supplied(col_bids_participant_id)
    /\ ~Supplied(col_bids_session_id)
    /\ input.map.bids_participant_id #
          participant_id_to_bids_participant_id(input.map.participant_id)

\* C5: a construction ends in a record with all eight fields, a legal status
\* and well-formed IDs, or in a validation error; never in another failure.
C5_AllOrNothing ==
    pc = "done" =>
        \/ /\ result.kind = "record"
           /\ DOMAIN result.rec = FieldNames
           /\ LegalStatus(result.rec.status)
           /\ check_participant_id(result.rec.participant_id)
           /\ check_session_id(result.rec.session_id)
        \/ result.kind = "ValidationError"

\* C6: a malformed participant_id or session_id ends the construction without
\* a record, BIDS IDs supplied or not; well-formed IDs in an otherwise valid
\* input (its BIDS IDs supplied, or defaulted as those of a dict are) end it
\* in a record that holds every supplied value as supplied.
C6_IdFormat ==
    pc = "done" /\ input.kind # "other" =>
        /\ (\/ Supplied(col_participant_id)
               /\ ~check_participant_id(input.map.participant_id)
            \/ Supplied(col_session_id)
               /\ ~check_session_id(input.map.session_id))
           => result.kind # "record"
        /\ RawValid /\ BidsAvailable
           => /\ result.kind = "record"
              /\ \A f \in DOMAIN input.map : result.rec[f] = input.map[f]

\* C6 witness: every field supplied and valid but the session ID, which is
\* malformed: the construction ends in the error of the session check.
C6_Witness ==
    /\ pc = "done"
    /\ \A f \in FieldNames : Supplied(f)
    /\ LegalStatus(input.map.status)
    /\ check_participant_id(input.map.participant_id)
    /\ ~check_session_id(input.map.session_id)
    /\ result = ValidationError(<<IdError("check_session_id")>>)

\* C9 as claimed: both ID checks are executed in every construction of a
\* complete mapping, whatever the other check and the status check say.
C9_Original ==
    pc = "done" /\ (\A f \in FieldNames : Supplied(f)) =>
        {"check_participant_id", "check_session_id"} \subseteq ran

\* C9 as amended: the ID checks run in sequence after the fields validated:
\* none when the construction ended before (KeyError, a missing field, an
\* invalid status), the session check only when the participant check
\* passed; a failure of either ends the construction in a validation error.
C9_Sequential ==
    pc = "done" =>
        /\ "check_participant_id" \in ran <=>
              \/ result.kind = "record"
              \/ result = ValidationError(<<IdError("check_participant_id")>>)
              \/ result = ValidationError(<<IdError("check_session_id")>>)
        /\ "check_session_id" \in ran <=>
              \/ result.kind = "record"
              \/ result = ValidationError(<<IdError("check_session_id")>>)
        /\ "check_participant_id" \in ran
              /\ ~check_participant_id(data.map.participant_id)
           => result = ValidationError(<<IdError("check_participant_id")>>)
        /\ "check_session_id" \in ran /\ ~check_session_id(data.map.session_id)
           => result = ValidationError(<<IdError("check_session_id")>>)

\* C9 witness: both IDs malformed and the status legal: the participant check
\* ended the construction and the session check was never made.
C9_Witness ==
    /\ pc = "done"
    /\ \A f \in FieldNames : Supplied(f)
    /\ ~check_participant_id(input.map.participant_id)
    /\ ~check_session_id(input.map.session_id)
    /\ ran = {"check_status", "check_participant_id"}
    /\ result = ValidationError(<<IdError("check_participant_id")>>)

\* The construction made step by step ends as BagelModel(input) does.
StepwiseIsBagelModel == pc = "done" => result = BagelModel(input)

====
